---- MODULE Spec2Model ----
(***************************************************************************)
(* Model of the signup orchestrator (AccountCreator) and of the SMS        *)
(* verification client (PhoneVerificationManager).                         *)
(*                                                                         *)
(* The program is sequential.  pc is the position of the single thread of  *)
(* control; the page (browser) and the SMS provider are the environment    *)
(* and answer every wait, click and HTTP request nondeterministically.     *)
(*                                                                         *)
(* A provider response text is modelled by the list of its colon-separated *)
(* segments (what data.split(':') returns); a keyword test                 *)
(* ("KEYWORD" in data) holds when one of the segments is the keyword.      *)
(***************************************************************************)
EXTENDS Integers, Sequences, FiniteSets, TLC

\* ---------------------------------------------------------------- bounds
\* number of account requests of one run (AccountCreator user_count)
UserCount == 2
\* number of rejections of a username followed within one attempt
MaxUsernameDepth == 2
\* saturation of the history counter of STATUS_WAIT_CODE responses,
\* expressed as the number of waits counted beyond REQUEST_MAX_TRY
WaitSlack == 2

\* ------------------------------------------------------ program constants
REQUEST_MAX_TRY == 10

None == "None"
\* the local variable `data` before its first assignment
Unbound == << >>

Digit == <<"0", "1", "2", "3", "4", "5", "6", "7", "8", "9">>

RECURSIVE Str(_)
Str(n) == IF n < 10 THEN Digit[n + 1] ELSE Str(n \div 10) \o Digit[(n % 10) + 1]

IsDigit(ch) == \E i \in 1..Len(Digit) : Digit[i] = ch
DigitValue(ch) == (CHOOSE i \in 1..Len(Digit) : Digit[i] = ch) - 1
Char(t, i) == SubSeq(t, i, i)

UpperCase == "ABCDEFGHIJKLMNOPQRSTUVWXYZ"
LowerCase == "abcdefghijklmnopqrstuvwxyz"
IsUpper(ch) == \E i \in 1..Len(UpperCase) : Char(UpperCase, i) = ch
IsLower(ch) == \E i \in 1..Len(LowerCase) : Char(LowerCase, i) = ch

\* str.lower on one character
LowerChar(ch) ==
    IF IsUpper(ch)
      THEN Char(LowerCase, CHOOSE i \in 1..Len(UpperCase) : Char(UpperCase, i) = ch)
      ELSE ch

RECURSIVE LowerFrom(_, _)
\* str.lower on the characters of t from the i-th on
LowerFrom(t, i) ==
    IF i > Len(t) THEN ""
    ELSE LowerChar(Char(t, i)) \o LowerFrom(t, i + 1)

\* str.lower
Lower(t) == LowerFrom(t, 1)

\* c.isalnum() or c == '.'
KeptInUsername(ch) == IsDigit(ch) \/ IsUpper(ch) \/ IsLower(ch) \/ ch = "."

RECURSIVE KeepUsernameCharsFrom(_, _)
\* the kept characters of t from the i-th on
KeepUsernameCharsFrom(t, i) ==
    IF i > Len(t) THEN ""
    ELSE (IF KeptInUsername(Char(t, i)) THEN Char(t, i) ELSE "")
            \o KeepUsernameCharsFrom(t, i + 1)

\* ''.join(c for c in base if c.isalnum() or c == '.')
KeepUsernameChars(t) == KeepUsernameCharsFrom(t, 1)

\* ------------------------------------------------------------ environment
\* activation id the provider gives to its k-th lease
ActivationId(k) == Str(41 + k)
Msisdns == {"611234567"}
Codes == {"998877"}

\* "KEYWORD" in data
Contains(d, kw) == \E i \in 1..Len(d) : d[i] = kw

GetStatusResponses ==
    {<<"STATUS_OK", c>> : c \in Codes}
        \cup {<<"STATUS_OK">>, <<"STATUS_WAIT_CODE">>, <<"STATUS_CANCEL">>, <<"ERROR_SQL">>}

NonLeaseNumberResponses ==
    {<<"ACCESS_NUMBER">>, <<"NO_NUMBERS">>, <<"NO_BALANCE">>, <<"BAD_KEY">>, <<"ERROR_SQL">>}

\* answers to getBalance: amounts around the 0.5 gate of main, an amount
\* that is no number, an empty amount, the keyword without any amount, and
\* answers without the keyword
BalanceResponses ==
    {<<"ACCESS_BALANCE", a>> : a \in {"10.50", "0.5", "0.49", "0", "", "n/a"}}
        \cup {<<"ACCESS_BALANCE">>, <<"BAD_KEY">>, <<"ERROR_SQL">>}

CancelResponses == {<<"ACCESS_CANCEL">>, <<"BAD_STATUS">>}
ReportResponses == {<<"ACCESS_ACTIVATION_SUCCESS">>, <<"BAD_STATUS">>}

TerminalStatus == {"reported-success", "cancelled"}
AllIds == {ActivationId(k) : k \in 1..UserCount}
\* requests.get raised requests.RequestException
RequestException == <<"requests.RequestException">>

\* the local user_data before the first request is fetched, and the None
\* get_user_data returns when it cannot produce the request
NoUserData ==
    [first_name |-> "", last_name |-> "", password |-> "", birthday |-> "",
     manual_username |-> ""]

\* rows of the user-info file: four columns, five columns (with a manual
\* username, and names holding characters a username does not keep), and
\* a short row
UserRows ==
    {<<"Jane", "Doe", "Abc123!@", "3/14/1990">>,
     <<"Ann-Marie", "O'Neil", "Abc123!@", "3/14/1990", "jane.manual">>,
     <<"Jane", "Doe", "Abc123!@">>}

\* UserManager.get_user_data on one row (lines 223-234): a row without
\* its fourth column raises IndexError, which is caught, and gives None
GetUserData(row) ==
    IF Len(row) < 4 THEN NoUserData
    ELSE [first_name |-> row[1], last_name |-> row[2], password |-> row[3],
          birthday |-> row[4],
          manual_username |-> IF Len(row) > 4 THEN row[5] ELSE ""]

\* the account requests handed to an attempt (UserManager.get_user_data)
UserDataInputs == {GetUserData(row) : row \in UserRows} \ {NoUserData}

\* numbers random.randint(10000, 99999) can return: both ends of the range
RandDigits == {10000, 99999}

\* generate_username, lines 171-174: the lower-cased names joined by a
\* point, stripped of every character that is neither alphanumeric nor a
\* point
UsernameBase(first_name, last_name) ==
    KeepUsernameChars(Lower(first_name) \o "." \o Lower(last_name))

\* UsernameBase of the names of the user-info file, evaluated once
RowUsernameBase ==
    [n \in {<<row[1], row[2]>> : row \in UserRows} |-> UsernameBase(n[1], n[2])]

\* UserManager.generate_username with no list of existing usernames: the
\* base of the names followed by the number drawn
GenerateUsername(first_name, last_name, rand_digits) ==
    (IF <<first_name, last_name>> \in DOMAIN RowUsernameBase
       THEN RowUsernameBase[<<first_name, last_name>>]
       ELSE UsernameBase(first_name, last_name))
        \o Str(rand_digits)

Steps == <<"Navigate", "Identity", "BirthGender", "Username", "Password",
           "PhoneChallenge", "FinalConsent", "Complete">>
StepSet == {Steps[i] : i \in 1..Len(Steps)}
Rank(s) == CHOOSE i \in 1..Len(Steps) : Steps[i] = s

VARIABLES
    pc,                     \* position of the thread of control
    current_index, successful_accounts, failed_accounts,   \* AccountCreator
    driver,                 \* BrowserManager.driver is not None
    user_data,              \* the request of the running attempt
    success,                \* value returned by _create_single_account
    unames,                 \* usernames of the open _fill_username_step frames
    username,               \* value returned by _fill_username_step
    retSub, lastSub,        \* history: the submission whose name was returned
                            \* and the name the latest submission entered
    phone_number,           \* local of _create_single_account
    current_activation_id, current_number,   \* PhoneVerificationManager
    attempt, data, reqFailed,   \* locals of the running polling loop
    ret,                    \* value returned by the last phone-manager call
    user_count,             \* UserManager.user_count, fixed for the run
    lease,                  \* provider: status of every activation id
    store,                  \* lines of the created-accounts file
    entries,                \* history: times each step was entered (attempt)
    attemptLeases,          \* history: leases obtained in this attempt
    cancelSent, reportSent, \* history: setStatus requests of this attempt
    entryId,                \* history: current_activation_id at call entry
    nreq, nNoNum, nOther,   \* history of the running get_phone_number
    nWait, nErr,            \* history of the running get_verification_code
    gnFailed, codeFailed,   \* history: which phone-manager call returned failure
    track,                  \* whether the per-call histories are recorded
    exc,                    \* history: how an exception of this attempt ended
    navMissing,             \* history: the last navigation missed an element
    page,                   \* history: the fields the detection found
    trackUi,                \* whether the page interactions are recorded
    clickLog,               \* history: the last _click_next_button invocation
    birthLog,               \* history: the paths of the last birthday step
    prerequisites,          \* main: value returned by check_prerequisites
    balance                 \* main: local `balance`, as <<kind, digits, scale>>

vars == <<pc, current_index, successful_accounts, failed_accounts, driver,
          user_data, success, unames, username, retSub, lastSub, phone_number,
          current_activation_id, current_number, attempt, data, reqFailed,
          ret, lease, store, entries, attemptLeases, cancelSent, reportSent,
          entryId, nreq, nNoNum, nOther, nWait, nErr, gnFailed, codeFailed,
          user_count, track, exc, navMissing, page, prerequisites, balance,
          trackUi, clickLog, birthLog>>

orchVars == <<current_index, successful_accounts, failed_accounts, driver>>
runVars == <<user_count, track, trackUi, prerequisites, balance>>
uiLog == <<clickLog, birthLog>>
phoneVars == <<current_activation_id, current_number>>
loopVars == <<attempt, data, reqFailed, ret>>
histLoop == <<entryId, nreq, nNoNum, nOther, nWait, nErr>>
histAttempt == <<attemptLeases, cancelSent, reportSent, gnFailed, codeFailed>>
nameVars == <<unames, username, retSub, lastSub>>

Issued == {id \in AllIds : lease[id] # "none"}

NoEntries == [s \in StepSet |-> 0]
Enter(s) == [entries EXCEPT ![s] = @ + 1]
\* the same for the username step, whose invocations are counted beyond the
\* first one only when the call histories are recorded
EnterUsername == [entries EXCEPT !["Username"] = IF track THEN @ + 1 ELSE 1]

\* a check_balance result: None, a float digits / 10^scale, or the exception
\* that left check_balance
NoBalance == <<"None", 0, 0>>
IndexError == <<"IndexError", 0, 0>>

\* the result of a _click_next_button invocation that has not happened
NoClick == [log |-> << >>, raised |-> FALSE]

InitFor(n, t, u) ==
    /\ pc = "main"
    /\ trackUi = u /\ clickLog = NoClick /\ birthLog = << >>
    /\ prerequisites = FALSE /\ balance = NoBalance
    /\ user_count = n /\ track = t
    /\ current_index = 0 /\ successful_accounts = 0 /\ failed_accounts = 0
    /\ driver = FALSE
    /\ user_data = NoUserData
    /\ success = FALSE
    /\ unames = << >> /\ username = None
    /\ retSub = 0 /\ lastSub = None
    /\ phone_number = ""
    /\ current_activation_id = None /\ current_number = None
    /\ attempt = 0 /\ data = Unbound /\ reqFailed = FALSE
    /\ ret = <<FALSE, None>>
    /\ lease = [id \in AllIds |-> "none"]
    /\ store = << >>
    /\ entries = NoEntries
    /\ attemptLeases = {} /\ cancelSent = {} /\ reportSent = {}
    /\ entryId = None
    /\ nreq = 0 /\ nNoNum = 0 /\ nOther = 0 /\ nWait = 0 /\ nErr = 0
    /\ gnFailed = FALSE /\ codeFailed = FALSE
    /\ exc = "none" /\ navMissing = FALSE /\ page = "unseen"

InitWith(n, t) == InitFor(n, t, FALSE)

\* AccountCreator.__init__ for a run of UserCount requests
Init == InitWith(UserCount, FALSE)

\* a run of one request with the page interactions recorded
InitUi == InitFor(1, FALSE, TRUE)

\* the same for a run of one request, with the call histories recorded
InitOne == InitWith(1, TRUE)

\* ------------------------------------------------------- attempt framing
ResetAttemptLocals ==
    /\ unames' = << >> /\ username' = None
    /\ retSub' = 0 /\ lastSub' = None
    /\ phone_number' = ""
    /\ attempt' = 0 /\ data' = Unbound /\ reqFailed' = FALSE
    /\ ret' = <<FALSE, None>>
    /\ entries' = NoEntries
    /\ attemptLeases' = {} /\ cancelSent' = {} /\ reportSent' = {}
    /\ entryId' = None
    /\ nreq' = 0 /\ nNoNum' = 0 /\ nOther' = 0 /\ nWait' = 0 /\ nErr' = 0
    /\ gnFailed' = FALSE /\ codeFailed' = FALSE

attemptLocals == <<unames, username, retSub, lastSub, phone_number, attempt, data, reqFailed,
                   ret, entries, attemptLeases, cancelSent, reportSent,
                   entryId, nreq, nNoNum, nOther, nWait, nErr, gnFailed,
                   codeFailed>>

\* `except Exception` of _create_single_account: screenshot, return False
CaughtInAttempt ==
    /\ pc' = "returned"
    /\ success' = FALSE
    /\ exc' = "caught"

\* the phone_number of _create_single_account when an exception left
\* _handle_phone_verification: line 147 did not assign, the value is the
\* one of line 145
PhoneNumberAfterException == ""

\* a `return False` / `return True` of _create_single_account
ReturnFromAttempt(b) ==
    /\ pc' = "returned"
    /\ success' = b
    /\ UNCHANGED exc

\* ------------------------------------------------------------------ main
creatorVars == <<orchVars, user_count, track, trackUi, uiLog, navMissing, page, phoneVars, user_data,
                 success, exc, lease, store, attemptLocals>>

\* main.py line 152: a missing input file ends the run with exit code 1
main_check_prerequisites ==
    /\ pc = "main"
    /\ \E ok \in BOOLEAN :
         /\ prerequisites' = ok
         /\ pc' = IF ok THEN "balance" ELSE "exit"
    /\ UNCHANGED <<creatorVars, balance>>

\* whether float(t) accepts the text: decimal digits with at most one point
IsFloatText(t) ==
    /\ \A i \in 1..Len(t) : IsDigit(Char(t, i)) \/ Char(t, i) = "."
    /\ Cardinality({i \in 1..Len(t) : Char(t, i) = "."}) <= 1
    /\ \E i \in 1..Len(t) : IsDigit(Char(t, i))

RECURSIVE DigitsValue(_, _)
\* the number written by the digits of the first n characters of t
DigitsValue(t, n) ==
    IF n = 0 THEN 0
    ELSE IF Char(t, n) = "." THEN DigitsValue(t, n - 1)
    ELSE 10 * DigitsValue(t, n - 1) + DigitValue(Char(t, n))

\* float(t) for an accepted text, as <<"float", digits, scale>> standing
\* for digits / 10^scale
ParseFloat(t) ==
    LET points == {i \in 1..Len(t) : Char(t, i) = "."}
        scale == IF points = {} THEN 0 ELSE Len(t) - (CHOOSE i \in points : TRUE)
    IN <<"float", DigitsValue(t, Len(t)), scale>>

RECURSIVE Pow10(_)
Pow10(k) == IF k = 0 THEN 1 ELSE 10 * Pow10(k - 1)

\* PhoneVerificationManager.check_balance on one answer (lines 251-266):
\* requests.RequestException and ValueError are caught, the IndexError of
\* data.split(':')[1] is not
CheckBalance(resp) ==
    IF resp = RequestException THEN NoBalance
    ELSE IF Contains(resp, "ACCESS_BALANCE")
           THEN IF Len(resp) < 2 THEN IndexError
                ELSE IF IsFloatText(resp[2]) THEN ParseFloat(resp[2])
                ELSE NoBalance
    ELSE NoBalance

\* main.py line 158: balance is not None and balance < 0.5
BalanceTooLow(b) == b[1] = "float" /\ 2 * b[2] < Pow10(b[3])

\* main.py lines 157-160: check_sms_balance and the balance gate; an
\* exception leaving check_balance leaves main (the call is outside the try)
main_check_sms_balance ==
    /\ pc = "balance"
    /\ \E resp \in BalanceResponses \cup {RequestException} :
         LET b == CheckBalance(resp)
         IN IF b = IndexError
              THEN pc' = "crashed" /\ UNCHANGED balance
              ELSE /\ balance' = b
                   /\ pc' = IF BalanceTooLow(b) THEN "exit" ELSE "creator"
    /\ UNCHANGED <<creatorVars, prerequisites>>

\* main.py lines 162-173: construct the AccountCreator and call
\* create_accounts; the local `balance` keeps its value
main_create_accounts ==
    /\ pc = "creator"
    /\ pc' = "loop"
    /\ UNCHANGED <<creatorVars, prerequisites, balance>>

\* ------------------------------------------------------- create_accounts
\* a variant that goes on with the attempt although no data was obtained
AfterNoUserDataFallsThrough == "navigate"

\* line 79, `continue`: back to the loop head, skipping the attempt
AfterNoUserData == "loop"

\* a variant in which a failed initialize_driver ends the run
create_accounts_driver_error_propagates ==
    /\ pc = "loop"
    /\ current_index < user_count
    /\ pc' = "done"
    /\ UNCHANGED <<current_index, successful_accounts, failed_accounts, driver,
                   runVars, navMissing, page, uiLog, current_activation_id,
                   current_number, user_data, success, exc, lease, store,
                   unames, username, retSub, lastSub, phone_number, attempt,
                   data, reqFailed,
                   ret, entries, attemptLeases, cancelSent, reportSent,
                   entryId, nreq, nNoNum, nOther, nWait, nErr, gnFailed,
                   codeFailed>>

\* a variant of close that leaves the session open
CloseLeavesOpen(d) == d

\* BrowserManager.close: quit the driver if there is one, then forget it;
\* the value is whether a driver is still held
Close(d) == FALSE

\* while condition false: log and return successful_accounts
create_accounts_return ==
    /\ pc = "loop"
    /\ ~(current_index < user_count)
    /\ pc' = "done"
    /\ UNCHANGED <<orchVars, runVars, navMissing, page, uiLog, phoneVars, user_data, success, exc, lease,
                   store, attemptLocals>>

\* a variant that skips the request without counting it
create_accounts_no_user_data_uncounted ==
    /\ pc = "loop"
    /\ current_index < user_count
    /\ current_index' = current_index + 1
    /\ UNCHANGED <<pc, successful_accounts, failed_accounts, driver, runVars,
                   navMissing, page, uiLog, phoneVars, user_data, success, exc, lease,
                   store, attemptLocals>>

\* get_user_data returned None: count a failure and continue
create_accounts_no_user_data ==
    /\ pc = "loop"
    /\ current_index < user_count
    /\ \E row \in UserRows :
         /\ GetUserData(row) = NoUserData
         /\ user_data' = GetUserData(row)
    /\ failed_accounts' = failed_accounts + 1
    /\ current_index' = current_index + 1
    /\ pc' = AfterNoUserData
    /\ UNCHANGED <<successful_accounts, driver, runVars, navMissing, page, uiLog, phoneVars,
                   success, exc, lease, store, attemptLocals>>

\* initialize_driver raised: the outer except counts a failure and closes
create_accounts_driver_error ==
    /\ pc = "loop"
    /\ current_index < user_count
    /\ \E ud \in UserDataInputs : user_data' = ud
    /\ failed_accounts' = failed_accounts + 1
    /\ current_index' = current_index + 1
    /\ driver' = Close(driver)
    /\ UNCHANGED <<pc, successful_accounts, runVars, navMissing, page, uiLog, phoneVars, success, exc,
                   lease, store, attemptLocals>>

\* user data obtained and driver initialised: _create_single_account begins
create_accounts_start_attempt ==
    /\ pc = "loop"
    /\ current_index < user_count
    /\ \E ud \in UserDataInputs : user_data' = ud
    /\ driver' = TRUE
    /\ pc' = "navigate"
    /\ ResetAttemptLocals
    /\ exc' = "none"
    /\ UNCHANGED <<current_index, successful_accounts, failed_accounts,
                   runVars, navMissing, page, uiLog, phoneVars, success, lease, store>>

\* lines 87-101: count the outcome, close the browser, advance the index
create_accounts_account ==
    /\ pc = "returned"
    /\ IF success
         THEN /\ successful_accounts' = successful_accounts + 1
              /\ UNCHANGED failed_accounts
         ELSE /\ failed_accounts' = failed_accounts + 1
              /\ UNCHANGED successful_accounts
    /\ driver' = Close(driver)
    /\ current_index' = current_index + 1
    /\ pc' = "loop"
    /\ ResetAttemptLocals
    /\ exc' = "none"
    /\ UNCHANGED <<runVars, navMissing, page, uiLog, phoneVars, user_data, success, lease, store>>

\* ------------------------------------------------ _create_single_account
stepFrame == <<orchVars, runVars, navMissing, page, phoneVars, user_data, lease, store,
               phone_number, attempt, data, reqFailed, ret, attemptLeases,
               cancelSent, reportSent, entryId, nreq, nNoNum, nOther, nWait,
               nErr, gnFailed, codeFailed>>

\* a variant running the password step before the username step
AfterStepSwapped(s) ==
    CASE s = "Navigate" -> "first"
      [] s = "Identity" -> "second"
      [] s = "BirthGender" -> "password"
      [] s = "Password" -> "username"
      [] s = "Username" -> "detect"
      [] s = "PhoneChallenge" -> "final"
      [] s = "FinalConsent" -> "save"

\* the position after a step that completed
AfterStep(s) ==
    CASE s = "Navigate" -> "first"
      [] s = "Identity" -> "second"
      [] s = "BirthGender" -> "username"
      [] s = "Username" -> "password"
      [] s = "Password" -> "detect"
      [] s = "PhoneChallenge" -> "final"
      [] s = "FinalConsent" -> "save"

\* whether an entry path raises: paths 1 and 4 click a link that must be
\* there, path 2 swallows every selector failure, path 3 only loads a URL
NavigationRaises(approach, getOk, linkPresent) ==
    \/ ~getOk
    \/ approach \in {1, 4} /\ ~linkPresent

\* whether the chosen entry path waits for an element that is not there:
\* path 1 its article link, path 2 its two buttons, path 4 its article
\* link; path 3 waits for nothing
ExpectedElementMissing(approach, linkPresent) ==
    approach \in {1, 2, 4} /\ ~linkPresent

navigate_to_account_creation ==
    /\ pc = "navigate"
    /\ entries' = Enter("Navigate")
    /\ \E approach \in 1..4, getOk \in BOOLEAN, linkPresent \in BOOLEAN :
          /\ navMissing' = IF track THEN ExpectedElementMissing(approach, linkPresent)
                                   ELSE navMissing
          /\ IF NavigationRaises(approach, getOk, linkPresent)
               THEN CaughtInAttempt
               ELSE pc' = AfterStep("Navigate") /\ UNCHANGED <<success, exc>>
    /\ UNCHANGED <<orchVars, runVars, phoneVars, user_data, lease, store,
                   phone_number, attempt, data, reqFailed, ret, attemptLeases,
                   cancelSent, reportSent, entryId, nreq, nNoNum, nOther, nWait,
                   nErr, gnFailed, codeFailed, nameVars, page, uiLog>>

\* ---------------------------------------------------- _click_next_button
\* Selectors.NEXT_BUTTONS, in their listed order
NEXT_BUTTONS == <<"class", "Next", "I agree">>

\* how the page answers the wait and the click for one selector variant:
\*   "clickable":        the wait returns the button, button.click() succeeds
\*   "late":             the wait times out, wait_for_element finds the
\*                       button and clicks it by script, button.click()
\*                       succeeds
\*   "late_intercepted": the same, but button.click() raises
\*   "absent":           the variant raises without any click
VariantAnswers == {"clickable", "late", "late_intercepted", "absent"}

\* answers that differ only in what the invocation never asks for (the
\* variants after the one that was clicked, the scripted click when a
\* variant was clicked) are enumerated once
AsksOnlyWhatIsTried(c) ==
    \A i \in 1..Len(NEXT_BUTTONS) :
        c[1][i] \in {"clickable", "late"} =>
            /\ c[2]
            /\ \A j \in (i + 1)..Len(NEXT_BUTTONS) : c[1][j] = "absent"

AllClickInputs ==
    {c \in [1..Len(NEXT_BUTTONS) -> VariantAnswers] \X BOOLEAN : AsksOnlyWhatIsTried(c)}

\* the page answers one invocation meets: one per variant, and whether the
\* direct scripted click succeeds
ClickInputs ==
    IF trackUi
      THEN AllClickInputs
      ELSE {<<[i \in 1..Len(NEXT_BUTTONS) |-> "clickable"], TRUE>>,
            <<[i \in 1..Len(NEXT_BUTTONS) |-> "absent"], FALSE>>}

\* wait_for_element(selector, clickable=True), lines 270-278: on a timeout
\* the element is looked up directly and clicked by script
WaitForClickable(i, answer, log) ==
    IF answer \in {"late", "late_intercepted"}
      THEN Append(log, <<"wait_click", i>>)
      ELSE log

\* a variant that raises without trying the direct scripted click
OnAllVariantsFailedNoScript(scriptOk, log) == [log |-> log, raised |-> TRUE]

\* lines 530-541: every variant raised; click by script, raise ValueError
\* when that fails too
OnAllVariantsFailed(scriptOk, log) ==
    IF scriptOk
      THEN [log |-> log \o << <<"try", 0>>, <<"script", 0>> >>, raised |-> FALSE]
      ELSE [log |-> Append(log, <<"try", 0>>), raised |-> TRUE]

RECURSIVE ClickFrom(_, _, _, _)
\* lines 519-528 from variant i on: wait for the button, click it and
\* return, or go on with the next variant when either raised
ClickFrom(i, answers, scriptOk, log) ==
    IF i > Len(NEXT_BUTTONS) THEN OnAllVariantsFailed(scriptOk, log)
    ELSE LET waited == WaitForClickable(i, answers[i], Append(log, <<"try", i>>))
         IN IF answers[i] \in {"clickable", "late"}
              THEN [log |-> Append(waited, <<"click", i>>), raised |-> FALSE]
              ELSE ClickFrom(i + 1, answers, scriptOk, waited)

\* one invocation of _click_next_button: the waits and clicks made, and
\* whether it raised
ClickNextButton(c) == ClickFrom(1, c[1], c[2], << >>)

Logged(r) == IF trackUi THEN r ELSE clickLog

\* the inputs of a step that fills fields and then clicks: when a field
\* fails the advance action is not invoked and meets no page answer
NotInvoked == <<[i \in 1..Len(NEXT_BUTTONS) |-> "absent"], FALSE>>
StepInputs ==
    (IF trackUi THEN {<<FALSE, NotInvoked>>} ELSE {})
        \cup {<<TRUE, c>> : c \in ClickInputs}

\* _fill_first_step: the two name fields, then the advance click
fill_first_step ==
    /\ pc = "first"
    /\ entries' = Enter("Identity")
    /\ \E inp \in StepInputs :
          LET fieldsOk == inp[1]
              r == ClickNextButton(inp[2])
          IN /\ clickLog' = IF fieldsOk THEN Logged(r) ELSE clickLog
             /\ IF fieldsOk /\ ~r.raised
                  THEN pc' = AfterStep("Identity") /\ UNCHANGED <<success, exc>>
                  ELSE CaughtInAttempt
    /\ UNCHANGED <<stepFrame, nameVars, birthLog>>

\* a variant that gives up as soon as the structured path failed
SecondStepRaisesWithoutFallback(structuredOk, fallbackOk) == ~structuredOk

\* the structured path, then the scripted fallback; raises when both fail
SecondStepRaises(structuredOk, fallbackOk) == ~structuredOk /\ ~fallbackOk

\* the paths _fill_second_step runs: the structured one (lines 274-319),
\* and after its failure the scripted one (lines 327-347)
SecondStepPaths(structuredOk, fallbackOk) ==
    IF structuredOk THEN <<"structured">>
    ELSE IF fallbackOk THEN <<"structured", "structured_failed", "fallback">>
    ELSE <<"structured", "structured_failed", "fallback", "fallback_failed">>

\* _fill_second_step: the structured path ends with the advance click
fill_second_step ==
    /\ pc = "second"
    /\ entries' = Enter("BirthGender")
    /\ \E inp \in StepInputs, fallbackOk \in BOOLEAN :
          LET fieldsOk == inp[1]
              c == inp[2]
              r == ClickNextButton(c)
              structuredOk == fieldsOk /\ ~r.raised
          IN /\ clickLog' = IF fieldsOk THEN Logged(r) ELSE clickLog
             /\ birthLog' = IF trackUi THEN SecondStepPaths(structuredOk, fallbackOk)
                                       ELSE birthLog
             /\ IF SecondStepRaises(structuredOk, fallbackOk)
                  THEN CaughtInAttempt
                  ELSE pc' = AfterStep("BirthGender") /\ UNCHANGED <<success, exc>>
    /\ UNCHANGED <<stepFrame, nameVars>>

\* a variant that keeps the manual username on every retry
ChosenUsernameKeepsManual(ud, depth, rand_digits) ==
    IF ud.manual_username # ""
      THEN ud.manual_username
      ELSE GenerateUsername(ud.first_name, ud.last_name, rand_digits)

\* the username one invocation of _fill_username_step enters: the manual
\* one when given (first invocation only: a retry is called with the manual
\* username cleared), otherwise one generated with the number drawn
ChosenUsername(ud, depth, rand_digits) ==
    IF depth = 0 /\ ud.manual_username # ""
      THEN ud.manual_username
      ELSE GenerateUsername(ud.first_name, ud.last_name, rand_digits)

\* the inputs of one invocation: the field fails before the name is
\* entered ("raise", the advance action is not invoked), or the click meets
\* its page answers and the rejection indicator is absent or present
\* afterwards
UsernameInputs ==
    {<<"raise", NotInvoked>>} \cup ({"accepted", "rejected"} \X ClickInputs)

\* a variant that gives up after the first retry
OnRejectionCapped(depth) == IF depth >= 1 THEN "fail" ELSE "retry"

\* lines 392-393: on a rejection the step calls itself again, whatever the
\* number of rejections so far
OnRejection(depth) == "retry"

\* the history value recorded when an exception is swallowed
Mark(v) == IF track THEN v ELSE exc

\* One invocation of _fill_username_step, Len(unames) frames being open.
\*   "raise":    the field is absent or the advance click fails
\*   "accepted": no rejection indicator after the submission
\*   "rejected": rejection indicator present, the step calls itself
\* An exception leaving a nested invocation is caught by the bare except
\* of the invocation that called it (line 394), which then returns its own
\* username.  A rejection is followed while fewer than MaxUsernameDepth
\* frames are open.
fill_username_step ==
    /\ pc = "username"
    /\ entries' = EnterUsername
    /\ LET depth == Len(unames)
       IN \E inp \in UsernameInputs, rand_digits \in RandDigits :
          LET u == ChosenUsername(user_data, depth, rand_digits)
              answer == inp[1]
              r == ClickNextButton(inp[2])
              outcome == IF answer # "raise" /\ r.raised THEN "raise" ELSE answer
          IN
          /\ outcome = "rejected" => depth < MaxUsernameDepth
          /\ clickLog' = IF answer # "raise" THEN Logged(r) ELSE clickLog
          /\ lastSub' = IF track /\ answer # "raise" THEN u ELSE lastSub
          /\ CASE outcome = "raise" /\ depth = 0 ->
                   /\ CaughtInAttempt
                   /\ UNCHANGED <<unames, username, retSub>>
              [] outcome = "raise" /\ depth > 0 ->
                   /\ username' = unames[depth]
                   /\ retSub' = IF track THEN depth ELSE retSub
                   /\ unames' = << >>
                   /\ pc' = AfterStep("Username")
                   /\ exc' = Mark("swallowed")
                   /\ UNCHANGED success
              [] outcome = "accepted" ->
                   /\ username' = u
                   /\ retSub' = IF track THEN depth + 1 ELSE retSub
                   /\ unames' = << >>
                   /\ pc' = AfterStep("Username")
                   /\ UNCHANGED <<success, exc>>
              [] outcome = "rejected" /\ OnRejection(depth) = "fail" ->
                   /\ CaughtInAttempt
                   /\ UNCHANGED <<unames, username, retSub>>
              [] outcome = "rejected" /\ OnRejection(depth) = "retry" ->
                   /\ unames' = Append(unames, u)
                   /\ UNCHANGED <<pc, username, retSub, success, exc>>
    /\ UNCHANGED <<stepFrame, birthLog>>

\* _fill_password_step: the two password fields, then the advance click
fill_password_step ==
    /\ pc = "password"
    /\ entries' = Enter("Password")
    /\ \E inp \in StepInputs :
          LET fieldsOk == inp[1]
              r == ClickNextButton(inp[2])
          IN /\ clickLog' = IF fieldsOk THEN Logged(r) ELSE clickLog
             /\ IF fieldsOk /\ ~r.raised
                  THEN pc' = AfterStep("Password") /\ UNCHANGED <<success, exc>>
                  ELSE CaughtInAttempt
    /\ UNCHANGED <<stepFrame, nameVars, birthLog>>

\* a variant that looks for the phone field first
RequiresPhoneVerificationPhoneFirst(dayPresent, phonePresent) ==
    IF phonePresent THEN TRUE
    ELSE FALSE

\* _requires_phone_verification: day field found -> False; else phone
\* field found -> True; else False
RequiresPhoneVerification(dayPresent, phonePresent) ==
    IF dayPresent THEN FALSE
    ELSE IF phonePresent THEN TRUE
    ELSE FALSE

\* the page state the detection met, as recorded in the history
PageState(dayPresent, phonePresent) ==
    IF dayPresent THEN (IF phonePresent THEN "day+phone" ELSE "day")
    ELSE IF phonePresent THEN "phone"
    ELSE "neither"

\* lines 145-147 and the entry of get_phone_number (lines 42-54)
requires_phone_verification ==
    /\ pc = "detect"
    /\ \E dayPresent \in BOOLEAN, phonePresent \in BOOLEAN :
          /\ page' = IF track THEN PageState(dayPresent, phonePresent) ELSE page
          /\ IF RequiresPhoneVerification(dayPresent, phonePresent)
            THEN /\ pc' = "gn_loop"
                 /\ entries' = Enter("PhoneChallenge")
                 /\ entryId' = current_activation_id
            ELSE /\ pc' = "final"
                 /\ UNCHANGED <<entries, entryId>>
    /\ phone_number' = ""
    /\ attempt' = 0
    /\ UNCHANGED <<orchVars, runVars, navMissing, uiLog, phoneVars, user_data, success, exc, lease,
                   store, nameVars, data, reqFailed, ret, attemptLeases,
                   cancelSent, reportSent, nreq, nNoNum, nOther, nWait, nErr,
                   gnFailed, codeFailed>>

\* --------------------------------------------- PhoneVerificationManager
\* a variant with an off-by-one loop bound
LoopContinuesInclusive(a, max_attempts) == a <= max_attempts

\* `while attempt < max_attempts`
LoopContinues(a, max_attempts) == a < max_attempts

\* a variant returning the bare number
FormatNumberBare(n) == n

\* f"+{self.current_number}"
FormatNumber(n) == "+" \o n

\* a variant that retries after BAD_KEY
NumberOutcomeBadKeyRetried(d) ==
    IF d = RequestException THEN "error"
    ELSE IF Contains(d, "ACCESS_NUMBER")
           THEN IF Len(d) >= 3 THEN "ok" ELSE "invalid"
    ELSE IF Contains(d, "NO_NUMBERS") THEN "retry"
    ELSE IF Contains(d, "NO_BALANCE") THEN "no_balance"
    ELSE "unexpected"

\* the branch get_phone_number takes on one response (lines 59-89)
NumberOutcome(d) ==
    IF d = RequestException THEN "error"
    ELSE IF Contains(d, "ACCESS_NUMBER")
           THEN IF Len(d) >= 3 THEN "ok" ELSE "invalid"
    ELSE IF Contains(d, "NO_NUMBERS") THEN "retry"
    ELSE IF Contains(d, "NO_BALANCE") THEN "no_balance"
    ELSE IF Contains(d, "BAD_KEY") THEN "bad_key"
    ELSE "unexpected"

\* the provider leases the next activation id with some number
LeaseResponses ==
    LET k == Cardinality(Issued) + 1
    IN IF k <= UserCount
         THEN {<<"ACCESS_NUMBER", ActivationId(k), m>> : m \in Msisdns}
         ELSE {}

Bump(n, cond) == IF track /\ cond THEN n + 1 ELSE n

\* one iteration of the loop of get_phone_number (lines 55-91)
get_phone_number_attempt ==
    /\ pc = "gn_loop"
    /\ LoopContinues(attempt, REQUEST_MAX_TRY)
    /\ attempt' = attempt + 1
    /\ \E resp \in LeaseResponses \cup NonLeaseNumberResponses \cup {RequestException} :
         LET outcome == NumberOutcome(resp)
         IN /\ data' = IF resp = RequestException THEN data ELSE resp
            /\ lease' = IF resp \in LeaseResponses
                          THEN [lease EXCEPT ![resp[2]] = "leased"]
                          ELSE lease
            /\ attemptLeases' = IF resp \in LeaseResponses
                                  THEN attemptLeases \cup {resp[2]}
                                  ELSE attemptLeases
            /\ nreq' = Bump(nreq, TRUE)
            /\ nNoNum' = Bump(nNoNum, outcome = "retry")
            /\ nOther' = Bump(nOther, outcome \in {"error", "invalid", "unexpected"})
            /\ CASE outcome = "ok" ->
                      /\ current_activation_id' = resp[2]
                      /\ current_number' = resp[3]
                      /\ ret' = <<TRUE, FormatNumber(resp[3])>>
                      /\ pc' = "gn_ret"
                 [] outcome = "no_balance" ->
                      /\ ret' = <<FALSE, "Insufficient balance in SMS-Activate account">>
                      /\ pc' = "gn_ret"
                      /\ UNCHANGED phoneVars
                 [] outcome = "bad_key" ->
                      /\ ret' = <<FALSE, "Invalid API key">>
                      /\ pc' = "gn_ret"
                      /\ UNCHANGED phoneVars
                 [] OTHER ->
                      /\ UNCHANGED <<pc, ret, phoneVars>>
    /\ UNCHANGED <<orchVars, runVars, navMissing, page, uiLog, user_data, success, exc, store, nameVars,
                   phone_number, reqFailed, entries, cancelSent, reportSent,
                   entryId, nWait, nErr, gnFailed, codeFailed>>

\* lines 93-94: the budget is used up
get_phone_number_exhausted ==
    /\ pc = "gn_loop"
    /\ ~LoopContinues(attempt, REQUEST_MAX_TRY)
    /\ ret' = <<FALSE, None>>
    /\ pc' = "gn_ret"
    /\ UNCHANGED <<orchVars, runVars, navMissing, page, uiLog, phoneVars, user_data, success, exc, lease,
                   store, nameVars, phone_number, attempt, data, reqFailed,
                   entries, histAttempt, histLoop>>

\* a variant that goes on polling after STATUS_CANCEL
StatusOutcomeCancelIgnored(failed, d) ==
    IF failed THEN "error"
    ELSE IF Contains(d, "STATUS_OK")
           THEN IF Len(d) >= 2 THEN "ok" ELSE "invalid"
    ELSE IF Contains(d, "STATUS_WAIT_CODE") THEN "wait"
    ELSE "unexpected"

\* the branch get_verification_code takes on one poll (lines 127-150)
StatusOutcome(failed, d) ==
    IF failed THEN "error"
    ELSE IF Contains(d, "STATUS_OK")
           THEN IF Len(d) >= 2 THEN "ok" ELSE "invalid"
    ELSE IF Contains(d, "STATUS_WAIT_CODE") THEN "wait"
    ELSE IF Contains(d, "STATUS_CANCEL") THEN "cancel"
    ELSE "unexpected"

\* a variant in which a waiting response consumes the attempt
WaitRefundNever(d, a) == a

\* lines 152-154: a waiting response gives the attempt back
WaitRefund(d, a) == IF Contains(d, "STATUS_WAIT_CODE") THEN a - 1 ELSE a

\* what a getStatus answer means for the lease at the provider
StatusEffect(resp, st) ==
    IF resp = RequestException THEN st
    ELSE IF Contains(resp, "STATUS_OK") /\ Len(resp) >= 2 THEN "code-received"
    ELSE IF Contains(resp, "STATUS_CANCEL") THEN "cancelled"
    ELSE st

\* lines 123-130: count the attempt and send getStatus
get_verification_code_request ==
    /\ pc = "gvc_loop"
    /\ LoopContinues(attempt, REQUEST_MAX_TRY)
    /\ attempt' = attempt + 1
    /\ \E resp \in GetStatusResponses \cup {RequestException} :
         /\ reqFailed' = (resp = RequestException)
         /\ data' = IF resp = RequestException THEN data ELSE resp
         /\ lease' = [lease EXCEPT ![current_activation_id] = StatusEffect(resp, @)]
    /\ pc' = "gvc_got"
    /\ UNCHANGED <<orchVars, runVars, navMissing, page, uiLog, phoneVars, user_data, success, exc, store,
                   nameVars, phone_number, ret, entries, histAttempt, histLoop>>

Saturate(n, cap) == IF n > cap THEN cap ELSE n

\* lines 132-156: classify the answer, refund a wait, sleep.  On a failed
\* first request `data` was never assigned and line 153 raises
\* UnboundLocalError, which leaves get_verification_code and
\* _handle_phone_verification and is caught in _create_single_account.
get_verification_code_classify ==
    /\ pc = "gvc_got"
    /\ LET outcome == StatusOutcome(reqFailed, data)
       IN /\ nWait' = Saturate(Bump(nWait, outcome = "wait"), REQUEST_MAX_TRY + WaitSlack)
          /\ nErr' = Saturate(Bump(nErr, outcome \in {"error", "invalid", "unexpected"}),
                              REQUEST_MAX_TRY + 1)
          /\ CASE outcome = "ok" ->
                    /\ ret' = <<TRUE, data[2]>>
                    /\ pc' = "gvc_ret"
                    /\ UNCHANGED <<attempt, success, exc, phone_number>>
               [] outcome = "cancel" ->
                    /\ ret' = <<FALSE, "Activation cancelled">>
                    /\ pc' = "gvc_ret"
                    /\ UNCHANGED <<attempt, success, exc, phone_number>>
               [] OTHER ->
                    IF data = Unbound
                      THEN /\ CaughtInAttempt
                           /\ attempt' = 0
                           /\ phone_number' = PhoneNumberAfterException
                           /\ UNCHANGED ret
                      ELSE /\ attempt' = WaitRefund(data, attempt)
                           /\ pc' = "gvc_loop"
                           /\ UNCHANGED <<ret, success, exc, phone_number>>
    /\ reqFailed' = FALSE
    /\ UNCHANGED <<orchVars, runVars, navMissing, page, uiLog, phoneVars, user_data, lease, store,
                   nameVars, data, entries, histAttempt,
                   entryId, nreq, nNoNum, nOther>>

\* lines 158-159: the budget is used up
get_verification_code_exhausted ==
    /\ pc = "gvc_loop"
    /\ ~LoopContinues(attempt, REQUEST_MAX_TRY)
    /\ ret' = <<FALSE, None>>
    /\ pc' = "gvc_ret"
    /\ UNCHANGED <<orchVars, runVars, navMissing, page, uiLog, phoneVars, user_data, success, exc, lease,
                   store, nameVars, phone_number, attempt, data, reqFailed,
                   entries, histAttempt, histLoop>>

\* whether the provider's answer confirms a setStatus(8) / setStatus(6)
CancelConfirmed(d) ==
    /\ d # RequestException
    /\ (Contains(d, "ACCESS_CANCEL") \/ Contains(d, "ACCESS_ACTIVATION_CANCEL"))

ReportConfirmed(d) ==
    /\ d # RequestException
    /\ Contains(d, "ACCESS_ACTIVATION_SUCCESS")

\* the locals of a polling call that has returned or was left by an
\* exception: its frame is gone
PollingFrameGone ==
    /\ attempt' = 0 /\ data' = Unbound /\ reqFailed' = FALSE

\* ---------------------------------------------- _handle_phone_verification
\* lines 455-468: the number came back; enter it, advance, start polling
\* (entry of get_verification_code, lines 107-122)
handle_phone_number_result ==
    /\ pc = "gn_ret"
    /\ nreq' = 0 /\ nNoNum' = 0 /\ nOther' = 0
    /\ PollingFrameGone
    /\ IF ~ret[1]
         THEN /\ gnFailed' = TRUE
              /\ phone_number' = ""
              /\ ReturnFromAttempt(FALSE)
              /\ UNCHANGED <<ret, clickLog>>
         ELSE /\ UNCHANGED gnFailed
              /\ \E inp \in StepInputs :
                   LET fieldsOk == inp[1]
                       c == inp[2]
                   IN
                   /\ clickLog' = IF fieldsOk THEN Logged(ClickNextButton(c))
                                             ELSE clickLog
                   /\ IF ~(fieldsOk /\ ~ClickNextButton(c).raised)
                     THEN /\ CaughtInAttempt
                          /\ phone_number' = PhoneNumberAfterException
                          /\ UNCHANGED ret
                     ELSE IF current_activation_id = None
                       THEN /\ ret' = <<FALSE, "No active phone number">>
                            /\ phone_number' = ret[2]
                            /\ pc' = "gvc_ret"
                            /\ UNCHANGED <<success, exc>>
                       ELSE /\ pc' = "gvc_loop"
                            /\ phone_number' = ret[2]
                            /\ UNCHANGED <<ret, success, exc>>
    /\ UNCHANGED <<orchVars, runVars, navMissing, page, birthLog, phoneVars, user_data, lease, store,
                   nameVars, entries, attemptLeases, cancelSent,
                   reportSent, codeFailed, entryId, nWait, nErr>>

\* a variant returning failure without cancelling the activation
OnCodeFailureReturn == "return"

\* what _handle_phone_verification does when the code did not come
\* (lines 469-471): go and cancel the activation
OnCodeFailure == "cancel"

\* a variant that takes every result of get_verification_code for a code
CodeReceivedAlways(r) == TRUE

\* line 469, `if not success`: whether get_verification_code gave a code
CodeReceived(r) == r[1]

\* lines 468-479: the code came back or not; enter it and advance
handle_verification_code_result ==
    /\ pc = "gvc_ret"
    /\ nWait' = 0 /\ nErr' = 0
    /\ PollingFrameGone
    /\ IF ~CodeReceived(ret)
         THEN /\ codeFailed' = TRUE
              /\ IF OnCodeFailure = "cancel"
                   THEN pc' = "cancel" /\ UNCHANGED <<success, exc>>
                   ELSE ReturnFromAttempt(FALSE)
              /\ UNCHANGED <<clickLog, phone_number>>
         ELSE /\ UNCHANGED codeFailed
              /\ \E inp \in StepInputs :
                   LET fieldsOk == inp[1]
                       c == inp[2]
                   IN
                   /\ clickLog' = IF fieldsOk THEN Logged(ClickNextButton(c))
                                             ELSE clickLog
                   /\ IF fieldsOk /\ ~ClickNextButton(c).raised
                     THEN /\ pc' = "report"
                          /\ UNCHANGED <<success, exc, phone_number>>
                     ELSE /\ CaughtInAttempt
                          /\ phone_number' = PhoneNumberAfterException
    /\ UNCHANGED <<orchVars, runVars, navMissing, page, birthLog, phoneVars, user_data, lease, store,
                   nameVars, ret, entries, attemptLeases,
                   cancelSent, reportSent, gnFailed, entryId, nreq, nNoNum,
                   nOther>>

\* a variant that forgets the stored lease whatever the provider answered
StoredAfterCancelAlwaysCleared(confirmed, v) == None

\* lines 186-197: a confirmed cancellation clears the stored field, any
\* other answer and a failed request leave it
StoredAfterCancel(confirmed, v) == IF confirmed THEN None ELSE v

\* cancel_current_activation (its boolean result in ret[1]), then
\* `return False, phone_number` (line 472) and `return False` of
\* _create_single_account (line 150)
cancel_current_activation ==
    /\ pc = "cancel"
    /\ IF current_activation_id = None
         THEN /\ ret' = <<TRUE, None>>
              /\ UNCHANGED <<phoneVars, lease, cancelSent>>
         ELSE /\ cancelSent' = cancelSent \cup {current_activation_id}
              /\ \E resp \in CancelResponses \cup {RequestException} :
                   LET confirmed == CancelConfirmed(resp)
                   IN /\ ret' = <<confirmed, None>>
                      /\ current_activation_id' =
                             StoredAfterCancel(confirmed, current_activation_id)
                      /\ current_number' = StoredAfterCancel(confirmed, current_number)
                      /\ lease' = IF confirmed
                                    THEN [lease EXCEPT ![current_activation_id] = "cancelled"]
                                    ELSE lease
    /\ ReturnFromAttempt(FALSE)
    /\ UNCHANGED <<orchVars, runVars, navMissing, page, uiLog, user_data, store, nameVars,
                   phone_number, attempt, data, reqFailed, entries,
                   attemptLeases, reportSent, gnFailed, codeFailed, histLoop>>

\* a variant that forgets the stored lease whatever the provider answered
StoredAfterReportAlwaysCleared(confirmed, v) == None

\* lines 224-235: a confirmed report clears the stored field, any other
\* answer and a failed request leave it
StoredAfterReport(confirmed, v) == IF confirmed THEN None ELSE v

\* report_success (its boolean result in ret[1]), then
\* `return True, phone_number` (line 485)
report_success ==
    /\ pc = "report"
    /\ IF current_activation_id = None
         THEN /\ ret' = <<FALSE, None>>
              /\ UNCHANGED <<phoneVars, lease, reportSent>>
         ELSE /\ reportSent' = reportSent \cup {current_activation_id}
              /\ \E resp \in ReportResponses \cup {RequestException} :
                   LET confirmed == ReportConfirmed(resp)
                   IN /\ ret' = <<confirmed, None>>
                      /\ current_activation_id' =
                             StoredAfterReport(confirmed, current_activation_id)
                      /\ current_number' = StoredAfterReport(confirmed, current_number)
                      /\ lease' = IF confirmed
                                    THEN [lease EXCEPT ![current_activation_id] = "reported-success"]
                                    ELSE lease
    /\ pc' = AfterStep("PhoneChallenge")
    /\ UNCHANGED <<orchVars, runVars, navMissing, page, uiLog, user_data, success, exc, store, nameVars,
                   phone_number, attempt, data, reqFailed, entries,
                   attemptLeases, cancelSent, gnFailed, codeFailed, histLoop>>

\* _complete_final_steps, lines 491-496: the advance click; an exception
\* is caught and gives False (lines 153-155)
complete_final_steps ==
    /\ pc = "final"
    /\ entries' = Enter("FinalConsent")
    /\ \E c \in ClickInputs :
          LET r == ClickNextButton(c)
          IN /\ clickLog' = Logged(r)
             /\ IF r.raised
                  THEN ReturnFromAttempt(FALSE)
                  ELSE pc' = "agree" /\ UNCHANGED <<success, exc>>
    /\ UNCHANGED <<stepFrame, nameVars, birthLog>>

\* _complete_final_steps, lines 498-513: scroll, then click "I agree";
\* when the scroll of line 499 raises the second click is not made and
\* the step gives False
complete_final_steps_agree ==
    /\ pc = "agree"
    /\ \E inp \in StepInputs :
          LET scrollOk == inp[1]
              r == ClickNextButton(inp[2])
          IN /\ clickLog' = IF scrollOk THEN Logged(r) ELSE clickLog
             /\ IF scrollOk /\ ~r.raised
                  THEN pc' = AfterStep("FinalConsent") /\ UNCHANGED <<success, exc>>
                  ELSE ReturnFromAttempt(FALSE)
    /\ UNCHANGED <<stepFrame, nameVars, birthLog, entries>>

\* a variant writing the fields in another order
AccountLineSwapped(u, p, b, ph) == p \o "\t" \o u \o "\t" \o b \o "\t" \o ph \o "\n"

\* the line save_created_account writes (line 264)
AccountLine(u, p, b, ph) == u \o "\t" \o p \o "\t" \o b \o "\t" \o ph \o "\n"

\* lines 157-166: persist and return True.  save_created_account catches
\* a failure to open or write the file (lines 262-267) and only logs it.
save_created_account ==
    /\ pc = "save"
    /\ entries' = Enter("Complete")
    /\ \E writeOk \in BOOLEAN :
         store' = IF writeOk
                    THEN Append(store, AccountLine(username, user_data.password,
                                                   user_data.birthday, phone_number))
                    ELSE store
    /\ ReturnFromAttempt(TRUE)
    /\ UNCHANGED <<orchVars, runVars, navMissing, page, uiLog, phoneVars, user_data, lease, nameVars,
                   phone_number, loopVars, histAttempt, histLoop>>

Next ==
    \/ main_check_prerequisites
    \/ main_check_sms_balance
    \/ main_create_accounts
    \/ create_accounts_return
    \/ create_accounts_no_user_data
    \/ create_accounts_driver_error
    \/ create_accounts_start_attempt
    \/ create_accounts_account
    \/ navigate_to_account_creation
    \/ fill_first_step
    \/ fill_second_step
    \/ fill_username_step
    \/ fill_password_step
    \/ requires_phone_verification
    \/ get_phone_number_attempt
    \/ get_phone_number_exhausted
    \/ handle_phone_number_result
    \/ get_verification_code_request
    \/ get_verification_code_classify
    \/ get_verification_code_exhausted
    \/ handle_verification_code_result
    \/ cancel_current_activation
    \/ report_success
    \/ complete_final_steps
    \/ complete_final_steps_agree
    \/ save_created_account

\* a run of UserCount requests
Spec == Init /\ [][Next]_vars

\* a run of one request with the histories of the provider calls recorded
SpecOne == InitOne /\ [][Next]_vars

\* a run of one request with the page interactions recorded
SpecUi == InitUi /\ [][Next]_vars

\* the thread of control is never suspended for ever: every blocking wait
\* has a timeout, so the program takes its next step whenever it has one
FairSpec == Init /\ [][Next]_vars /\ WF_vars(Next)

TypeOK ==
    /\ pc \in {"main", "balance", "creator", "exit", "crashed",
               "loop", "done", "navigate", "first", "second", "username",
               "password", "detect", "gn_loop", "gn_ret", "gvc_loop",
               "gvc_got", "gvc_ret", "cancel", "report", "final", "agree", "save",
               "returned"}
    /\ current_index \in 0..user_count
    /\ successful_accounts \in 0..user_count
    /\ failed_accounts \in 0..user_count
    /\ driver \in BOOLEAN /\ success \in BOOLEAN
    /\ exc \in {"none", "caught", "swallowed"}
    /\ navMissing \in BOOLEAN
    /\ page \in {"unseen", "day", "day+phone", "phone", "neither"}
    /\ prerequisites \in BOOLEAN
    /\ trackUi \in BOOLEAN
    /\ clickLog.raised \in BOOLEAN
    /\ Len(birthLog) <= 4
    /\ balance[1] \in {"None", "float"}
    /\ attempt \in 0..REQUEST_MAX_TRY
    /\ current_activation_id \in AllIds \cup {None}
    /\ lease \in [AllIds -> {"none", "leased", "code-received"} \cup TerminalStatus]

\* ================================================================ claims
InPolling == pc \in {"gvc_loop", "gvc_got"}
Exhausted == <<FALSE, None>>

\* C1: when _create_single_account has returned, every lease obtained in
\* that attempt is in a terminal status at the provider (cancel or success
\* report confirmed).
C1_NoLeaseLeftUnresolved ==
    pc = "returned" => \A id \in attemptLeases : lease[id] \in TerminalStatus

\* C2: whenever get_phone_number is about to issue a getNumber request,
\* every lease issued earlier is in a terminal status, and the stored
\* activation id does not name an unresolved lease.
C2_OneActiveLease ==
    (pc = "gn_loop" /\ LoopContinues(attempt, REQUEST_MAX_TRY)) =>
        /\ \A id \in Issued : lease[id] \in TerminalStatus
        /\ current_activation_id # None => lease[current_activation_id] \in TerminalStatus

\* C3: every attempt that starts eventually returns, and create_accounts
\* then increments exactly one of successful_accounts / failed_accounts.
C3_EveryAttemptEndsWithOneOutcome ==
    /\ [][current_index' # current_index =>
            /\ current_index' = current_index + 1
            /\ successful_accounts' + failed_accounts'
                 = successful_accounts + failed_accounts + 1
            /\ successful_accounts' >= successful_accounts
            /\ failed_accounts' >= failed_accounts]_vars
    /\ \A i \in 0..(UserCount - 1) :
          (pc = "navigate" /\ current_index = i) ~> (current_index = i + 1)

\* C4: within one attempt a step is entered only when every step before it
\* (the phone challenge being optional) was entered and no later step was;
\* only the username step is entered more than once, and only while
\* a rejected invocation of it is open.
C4_StepOrder ==
    [][\A s \in StepSet :
         entries'[s] > entries[s] =>
            /\ \A t \in StepSet : Rank(t) > Rank(s) => entries[t] = 0
            /\ \A t \in StepSet \ {"PhoneChallenge"} :
                  Rank(t) < Rank(s) => entries[t] >= 1
            /\ s # "Username" => entries[s] = 0
            /\ (s = "Username" /\ entries[s] >= 1) => Len(unames) = entries[s]]_vars

C4_Witness ==
    /\ pc = "returned" /\ success
    /\ entries["Username"] >= 2
    /\ entries["PhoneChallenge"] = 1
    /\ entries["Complete"] = 1

\* C5: when get_phone_number or get_verification_code returned failure the
\* attempt ends as Failure with neither FinalConsent nor persistence run;
\* after a code failure the cancel request was sent for the leased
\* activation; when the phone challenge returned success the success
\* report was sent for the leased activation.
C5_PhoneFailureHandling ==
    /\ (pc = "returned" /\ (gnFailed \/ codeFailed)) =>
          /\ ~success
          /\ entries["FinalConsent"] = 0 /\ entries["Complete"] = 0
    /\ (pc = "returned" /\ codeFailed) =>
          attemptLeases # {} /\ attemptLeases \subseteq cancelSent
    /\ (pc \in {"final", "save"} /\ entries["PhoneChallenge"] = 1) =>
          attemptLeases # {} /\ attemptLeases \subseteq reportSent

C5_Witness ==
    /\ pc = "returned" /\ codeFailed
    /\ cancelSent # {}
    /\ current_index = 1

\* C6: in get_verification_code every genuine error consumes one attempt:
\* at the loop head the attempt counter equals the number of genuine errors
\* seen so far in the call.
C6_ErrorsConsumeBudget ==
    pc = "gvc_loop" => attempt = nErr

\* C7: waiting responses alone never exhaust the budget of
\* get_verification_code: with no genuine error so far the attempt counter
\* is 0 at the loop head, the call never returns the exhaustion result, and
\* a STATUS_OK:<code> arriving then makes it return (True, <code>).
C7_WaitingNeverExhausts ==
    /\ (pc = "gvc_loop" /\ nErr = 0) => attempt = 0
    /\ (pc = "gvc_ret" /\ nErr = 0) => ret # Exhausted
    /\ (pc = "gvc_ret" /\ nErr = 0 /\ Contains(data, "STATUS_OK") /\ Len(data) >= 2) =>
          ret = <<TRUE, data[2]>>

C7_Witness ==
    /\ pc = "gvc_ret" /\ nErr = 0
    /\ nWait >= REQUEST_MAX_TRY
    /\ ret = <<TRUE, "998877">>

\* C8: get_verification_code always returns: polling, once begun,
\* eventually ends, whatever the provider answers.
C8_PollingEnds == InPolling ~> ~InPolling

\* C9: when the provider answered NO_NUMBERS k times (k < max_attempts) and
\* nothing else, exactly k requests were made and the loop goes on; an
\* ACCESS_NUMBER:<id>:<msisdn> arriving then makes get_phone_number return
\* (True, '+' msisdn) on request k+1 with <id> stored as activation id.
C9_LeaseAfterNoNumbers ==
    /\ (pc = "gn_loop" /\ nOther = 0) => (attempt = nNoNum /\ nreq = nNoNum)
    /\ (pc = "gn_ret" /\ nOther = 0 /\ Contains(data, "ACCESS_NUMBER") /\ Len(data) >= 3) =>
          /\ nNoNum < REQUEST_MAX_TRY
          /\ nreq = nNoNum + 1
          /\ ret = <<TRUE, "+" \o data[3]>>
          /\ current_activation_id = data[2]
          /\ current_number = data[3]

C9_Witness ==
    /\ pc = "gn_ret" /\ nOther = 0
    /\ nNoNum = REQUEST_MAX_TRY - 1
    /\ ret = <<TRUE, "+611234567">>
    /\ current_activation_id = "42"

\* C10: get_phone_number makes at most max_attempts requests, one per loop
\* iteration; it returns the exhaustion failure only after exactly
\* max_attempts requests, none of which gave a lease, and then the stored
\* activation id is the one it found at entry.
C10_LeaseBudget ==
    /\ nreq <= REQUEST_MAX_TRY
    /\ pc = "gn_loop" => (attempt = nreq /\ nreq = nNoNum + nOther)
    /\ (pc = "gn_ret" /\ ret = Exhausted) =>
          /\ nreq = REQUEST_MAX_TRY
          /\ nNoNum + nOther = REQUEST_MAX_TRY
          /\ attemptLeases = {}
          /\ current_activation_id = entryId

C10_Witness ==
    /\ pc = "gn_ret" /\ ret = Exhausted
    /\ nNoNum > 0 /\ nOther > 0

\* C11: a BAD_KEY or NO_BALANCE answer ends get_phone_number at once: the
\* loop is never at its head again after such an answer, the call returns
\* failure having made exactly the requests up to that answer (one when it
\* is the first), and no lease is stored.
C11_TerminalResponseStops ==
    /\ pc = "gn_loop" => ~(Contains(data, "BAD_KEY") \/ Contains(data, "NO_BALANCE"))
    /\ (pc = "gn_ret" /\ (Contains(data, "BAD_KEY") \/ Contains(data, "NO_BALANCE"))) =>
          /\ ~ret[1]
          /\ ret[2] \in {"Invalid API key", "Insufficient balance in SMS-Activate account"}
          /\ nreq = nNoNum + nOther + 1
          /\ attemptLeases = {}
          /\ current_activation_id = entryId

C11_Witness ==
    /\ pc = "gn_ret" /\ data = <<"BAD_KEY">>
    /\ nreq = 1
    /\ ret = <<FALSE, "Invalid API key">>

\* C12: a STATUS_CANCEL answer ends get_verification_code at once: the loop
\* is never at its head again after it, whatever budget is left, and the
\* call returns failure.
C12_CancelIsTerminal ==
    /\ pc = "gvc_loop" => ~Contains(data, "STATUS_CANCEL")
    /\ (pc = "gvc_ret" /\ Contains(data, "STATUS_CANCEL")) =>
          ret = <<FALSE, "Activation cancelled">>

C12_Witness ==
    /\ pc = "gvc_ret" /\ data = <<"STATUS_CANCEL">>
    /\ attempt = 1 /\ nWait > 0
    /\ ret = <<FALSE, "Activation cancelled">>

\* C13: once an exception was raised inside a step executor (also inside a
\* retried username submission) the attempt has ended as Failure and
\* neither final consent nor persistence ran.
C13_ExecutorExceptionAborts ==
    exc \in {"caught", "swallowed"} =>
        /\ pc = "returned" /\ ~success
        /\ entries["FinalConsent"] = 0 /\ entries["Complete"] = 0

\* C14: when the first n >= 1 username submissions were rejected and
\* submission n+1 was accepted, the step returns the username entered in
\* submission n+1, which is a generated one and not the manual one.
C14_RegeneratedUsernameReturned ==
    (pc = "password" /\ exc = "none" /\ entries["Username"] >= 2) =>
        /\ retSub = entries["Username"]
        /\ username = lastSub
        /\ \E d \in RandDigits :
              username = GenerateUsername(user_data.first_name, user_data.last_name, d)
        /\ username # user_data.manual_username

C14_Witness ==
    /\ pc = "password" /\ exc = "none"
    /\ entries["Username"] = 3
    /\ user_data.manual_username = "jane.manual"
    /\ username = "annmarie.oneil99999"

\* C15: the username retry has no cap of its own: every rejection so far
\* was followed by another submission, every submission after the first
\* enters a generated username, and once a submission was rejected the
\* step never ends the attempt as a failure.
C15_UsernameRetryUncapped ==
    /\ pc = "username" => entries["Username"] = Len(unames)
    /\ (pc = "username" /\ Len(unames) >= 1) =>
          \A d \in RandDigits :
             ChosenUsername(user_data, Len(unames), d)
                = GenerateUsername(user_data.first_name, user_data.last_name, d)
    /\ (pc = "returned" /\ entries["Username"] >= 2) => entries["Password"] = 1

C15_Witness ==
    /\ pc = "username"
    /\ Len(unames) = MaxUsernameDepth
    /\ entries["Username"] = MaxUsernameDepth

\* C16: one entry path is tried per attempt, and when that path misses an
\* element it waits for, the identity step is not executed and the attempt
\* does not succeed.
C16_MissingElementFailsNavigation ==
    /\ entries["Navigate"] <= 1
    /\ (navMissing /\ entries["Navigate"] = 1) =>
          /\ entries["Identity"] = 0
          /\ pc = "returned" => ~success

\* C17: between attempts and at the end of the run the created-accounts
\* file has as many lines as successful_accounts.
C17_OneLinePerSuccess ==
    pc \in {"loop", "done"} => Len(store) = successful_accounts

\* C18: whenever a line is appended to the created-accounts file it is
\* username TAB password TAB birthday TAB phone NEWLINE, with the username
\* the username step returned, the password and birthday of the request,
\* and the phone '+<msisdn>' when the phone challenge ran in this attempt
\* and empty otherwise.
C18_PersistedRecord ==
    [][store' # store =>
         \E ph \in {""} \cup {"+" \o m : m \in Msisdns} :
            /\ (ph = "") <=> (entries["PhoneChallenge"] = 0)
            /\ store' = Append(store,
                   username \o "\t" \o user_data.password \o "\t"
                     \o user_data.birthday \o "\t" \o ph \o "\n")]_vars

C18_Witness ==
    /\ pc = "returned" /\ success
    /\ entries["PhoneChallenge"] = 1
    /\ user_data.manual_username = "jane.manual"
    /\ Len(store) = 1
    /\ store[1] = "annmarie.oneil10000\tAbc123!@\t3/14/1990\t+611234567\n"

\* C19: whenever create_accounts is at its loop head or has returned, no
\* browser session is held.
C19_SessionClosed ==
    pc \in {"loop", "done"} => ~driver

C19_Witness ==
    /\ pc = "loop" /\ ~driver
    /\ successful_accounts = 1 /\ failed_accounts = 1

\* C20: an exception caught at the attempt boundary is counted as one
\* failure; the index only ever advances by one, with the session closed
\* and the loop resumed; create_accounts returns only when the index has
\* reached user_count and every request was counted.
C20_ExceptionNeverEndsRun ==
    [][/\ current_index' # current_index =>
            /\ current_index' = current_index + 1
            /\ pc' = "loop" /\ ~driver'
       /\ (pc = "returned" /\ exc = "caught" /\ pc' # pc) =>
            /\ failed_accounts' = failed_accounts + 1
            /\ successful_accounts' = successful_accounts
            /\ current_index' = current_index + 1
       /\ (pc = "loop" /\ pc' = "loop" /\ current_index' # current_index) =>
            /\ failed_accounts' = failed_accounts + 1
            /\ successful_accounts' = successful_accounts
       /\ pc' = "done" =>
            /\ current_index = user_count
            /\ successful_accounts + failed_accounts = user_count]_vars

C20_Witness ==
    /\ pc = "returned" /\ exc = "caught"
    /\ current_index = 1 /\ failed_accounts = 1

\* C21: at every loop head of create_accounts the two counters add up to
\* current_index, at its return to user_count; successful_accounts grows
\* by one exactly when an attempt that returned True is counted, so the
\* value returned is the number of such attempts.
C21_CountersConsistent ==
    /\ [](pc = "loop" => successful_accounts + failed_accounts = current_index)
    /\ [](pc = "done" => successful_accounts + failed_accounts = user_count)
    /\ [][/\ successful_accounts' # successful_accounts =>
               /\ pc = "returned" /\ success
               /\ successful_accounts' = successful_accounts + 1
          /\ (pc = "returned" /\ success /\ pc' # pc) =>
               successful_accounts' = successful_accounts + 1]_vars

C21_Witness ==
    /\ pc = "done"
    /\ successful_accounts = 1 /\ failed_accounts = 1
    /\ current_index = user_count

\* C22: main returns before create_accounts is called only when
\* check_prerequisites failed.
C22_EarlyEndOnlyOnPrerequisites ==
    pc = "exit" => ~prerequisites

\* C23: the detection never raises and decides from the page alone: the
\* phone challenge is entered exactly when the birth-date field is absent
\* and the phone field present; in the three other page states the attempt
\* goes on to the final steps.
C23_DetectionIsTotal ==
    [][pc = "detect" =>
         /\ pc' \in {"gn_loop", "final"}
         /\ exc' = exc
         /\ page' \in {"day", "day+phone", "phone", "neither"}
         /\ (pc' = "gn_loop") <=> (page' = "phone")
         /\ (page' \in {"day", "day+phone", "neither"}) => pc' = "final"]_vars

C23_Witness ==
    /\ pc = "final"
    /\ page = "day+phone"
    /\ entries["PhoneChallenge"] = 0 /\ entries["FinalConsent"] = 0

\* C24: no provider response text makes get_phone_number,
\* get_verification_code or check_balance raise: a keyword with too few
\* segments is retried or gives a failure value, and the balance check
\* never leaves main with an exception.
C24_ParsingNeverRaises ==
    /\ pc # "crashed"
    /\ (pc \in {"gn_loop", "gn_ret"} /\ data = <<"ACCESS_NUMBER">>) =>
          /\ attemptLeases = {}
          /\ pc = "gn_ret" => ret = Exhausted
    /\ (pc \in {"gvc_loop", "gvc_ret"} /\ data = <<"STATUS_OK">>) =>
          (pc = "gvc_ret" => ret = Exhausted)

\* C25: cancel_current_activation never raises and the attempt ends as
\* Failure after it; when it returns False (cancellation not confirmed or
\* request failed) the stored activation id and number and the lease are
\* unchanged; the stored lease changes only by being cleared on a
\* confirmed cancellation.
C25_CancelBestEffort ==
    [][pc = "cancel" =>
         /\ pc' = "returned" /\ ~success' /\ exc' = exc
         /\ ~ret'[1] =>
               /\ current_activation_id' = current_activation_id
               /\ current_number' = current_number
               /\ lease' = lease
         /\ <<current_activation_id', current_number'>>
                # <<current_activation_id, current_number>> =>
               /\ ret'[1]
               /\ current_activation_id' = None /\ current_number' = None
               /\ lease'[current_activation_id] = "cancelled"]_vars

C25_Witness ==
    /\ pc = "returned" /\ ~success
    /\ cancelSent # {} /\ ~ret[1]
    /\ current_activation_id \in cancelSent
    /\ current_number \in Msisdns
    /\ lease[current_activation_id] = "leased"

\* C26: report_success never raises and the attempt goes on to the final
\* steps after it; when it returns False the stored activation id and
\* number and the lease are unchanged.
C26_ReportFailureLoggedOnly ==
    [][pc = "report" =>
         /\ pc' = "final" /\ exc' = exc /\ success' = success
         /\ ~ret'[1] =>
               /\ current_activation_id' = current_activation_id
               /\ current_number' = current_number
               /\ lease' = lease]_vars

C26_Witness ==
    /\ pc = "returned" /\ success
    /\ reportSent # {} /\ ~ret[1]
    /\ current_activation_id \in reportSent
    /\ lease[current_activation_id] = "code-received"
    /\ entries["FinalConsent"] = 1 /\ entries["Complete"] = 1

\* C27: a lease's status changes only along leased, code-received,
\* reported-success or from a non-terminal status to cancelled; a success
\* report is sent only for a lease of this attempt whose code was received
\* and a cancel only for a lease of this attempt that was not reported,
\* neither after an earlier cancel or report for that lease.
C27_LeaseStatusOrder ==
    /\ [][\A id \in AllIds :
            lease'[id] # lease[id] =>
               <<lease[id], lease'[id]>> \in
                  {<<"none", "leased">>, <<"leased", "code-received">>,
                   <<"code-received", "reported-success">>,
                   <<"leased", "cancelled">>, <<"code-received", "cancelled">>}]_vars
    /\ []((pc = "report" /\ current_activation_id # None) =>
            /\ lease[current_activation_id] = "code-received"
            /\ current_activation_id \in attemptLeases
            /\ current_activation_id \notin cancelSent \cup reportSent)
    /\ []((pc = "cancel" /\ current_activation_id # None) =>
            /\ lease[current_activation_id] # "reported-success"
            /\ current_activation_id \in attemptLeases
            /\ current_activation_id \notin cancelSent \cup reportSent)

C27_Witness ==
    /\ pc = "returned"
    /\ lease[ActivationId(1)] = "cancelled"
    /\ lease[ActivationId(2)] = "reported-success"
    /\ reportSent = {ActivationId(2)}
    /\ current_activation_id = None

\* C28: an attempt in which a success report was sent ends as Success.
C28_ReportOnlyOnSuccess ==
    (pc = "returned" /\ reportSent # {}) => success

\* C29: no exception leaves get_verification_code: from inside its polling
\* loop control only stays in the loop or reaches its return.
C29_VerificationCodeNeverRaises ==
    [][InPolling => (pc' \in {"gvc_loop", "gvc_got", "gvc_ret"} /\ exc' = exc)]_vars

\* C30: the username the username step returned is the one of the latest
\* submission of the attempt, the only one that can have been followed by
\* no rejection indicator, and not the one of an earlier, rejected
\* submission.
C30_RejectedUsernameNeverReturned ==
    username # None => retSub = entries["Username"]

\* C31: one invocation of the advance action tries the selector variants
\* in their listed order without skipping one, ends with the first click
\* of a variant that succeeds, tries the direct scripted click only after
\* all variants were tried and none was clicked, and raises exactly when
\* the scripted click was tried and failed.
C31_AdvanceTriesVariantsInOrder ==
    LET l == clickLog.log
        At(e) == {p \in 1..Len(l) : l[p] = e}
    IN /\ \A p \in 1..Len(l), q \in 1..Len(l) :
             (p < q /\ l[p][1] = "try" /\ l[q][1] = "try") =>
                (l[p][2] # 0 /\ (l[q][2] # 0 => l[p][2] < l[q][2]))
       /\ \A q \in 1..Len(l) :
             (l[q][1] = "try" /\ l[q][2] > 1) =>
                \E p \in 1..(q - 1) : l[p] = <<"try", l[q][2] - 1>>
       /\ \A p \in 1..Len(l) :
             l[p][1] = "click" => (p = Len(l) /\ ~clickLog.raised)
       /\ \A p \in At(<<"try", 0>>) :
             /\ \A i \in 1..Len(NEXT_BUTTONS) :
                   \E q \in 1..(p - 1) : l[q] = <<"try", i>>
             /\ \A q \in 1..Len(l) : l[q][1] # "click"
       /\ clickLog.raised <=> (At(<<"try", 0>>) # {} /\ At(<<"script", 0>>) = {})

C31_Witness ==
    /\ pc = "second"
    /\ clickLog = [log |-> << <<"try", 1>>, <<"try", 2>>, <<"try", 3>>,
                              <<"try", 0>>, <<"script", 0>> >>,
                   raised |-> FALSE]

\* C32: the birthday step runs its scripted fallback at most once and only
\* after the structured path failed; when the structured path or the
\* fallback completed the attempt goes on with the username step, and when
\* the fallback failed too the step raises and the attempt ends as Failure.
C32_BirthdayFallbackOnce ==
    [][pc = "second" =>
         LET b == birthLog'
         IN /\ Cardinality({p \in 1..Len(b) : b[p] = "fallback"}) <= 1
            /\ \A p \in 1..Len(b) :
                  b[p] = "fallback" =>
                     \E q \in 1..(p - 1) : b[q] = "structured_failed"
            /\ b[Len(b)] \in {"structured", "fallback"} =>
                  (pc' = "username" /\ exc' = exc)
            /\ b[Len(b)] = "fallback_failed" =>
                  (pc' = "returned" /\ ~success' /\ exc' = "caught")]_vars

C32_Witness ==
    /\ pc = "username"
    /\ birthLog = <<"structured", "structured_failed", "fallback">>
    /\ entries["BirthGender"] = 1 /\ entries["Username"] = 0
    /\ exc = "none"

\* C33: one invocation of the advance action performs at most one click,
\* counting the scripted click made inside wait_for_element, the click of
\* the caller and the direct scripted click.
C33_AtMostOneClick ==
    Cardinality({p \in 1..Len(clickLog.log) :
                    clickLog.log[p][1] \in {"wait_click", "click", "script"}}) <= 1

\* C34: when get_user_data gives no data for the request, the request is
\* counted as one failure and skipped: the index advances by one, control
\* is back at the loop head, no browser session is opened, no lease is
\* requested and nothing is persisted.
C34_MissingDataSkipsRequest ==
    [][(pc = "loop" /\ user_data' = NoUserData /\ current_index' # current_index) =>
         /\ failed_accounts' = failed_accounts + 1
         /\ successful_accounts' = successful_accounts
         /\ current_index' = current_index + 1
         /\ pc' = "loop"
         /\ ~driver /\ ~driver'
         /\ lease' = lease /\ store' = store
         /\ current_activation_id' = current_activation_id
         /\ entries' = entries]_vars

C34_Witness ==
    /\ pc = "loop" /\ user_data = NoUserData
    /\ current_index = 1 /\ failed_accounts = 1 /\ successful_accounts = 0
    /\ ~driver /\ store = << >> /\ Issued = {}

====
